---------------------------- MODULE Spec2Model ----------------------------
(***************************************************************************)
(* A model of msr-tools/core-port-stat.cpp: the port-utilisation sampler   *)
(* that programs the general-purpose performance counters of every core    *)
(* through /dev/cpu/N/msr and prints, once per second, the share of cycles *)
(* in which each execution port dispatched a micro-op.                     *)
(*                                                                         *)
(* The program is sequential.  One action models one step of main(): the   *)
(* probe and gate, the read of /proc/cpuinfo, one open per logical         *)
(* processor, one register write per (core, event) in the configure and    *)
(* reset loops, the baseline rdtsc, and per tick one rdtsc followed by one *)
(* register read per (core, event).  The machine the program runs on (the  *)
(* two CPUID leaves, the processor table, which MSR devices can be opened, *)
(* what the ports do) is chosen in Init and never changes.                 *)
(*                                                                         *)
(* Widths.  u_int64_t arithmetic is modelled modulo 2^WordBits and the     *)
(* hardware counters modulo 2^pmc_bitwidth, with pmc_bitwidth < WordBits   *)
(* as on the real part (48 < 64); the widths are scaled down because the   *)
(* model checker's integers are 32 bits wide.                              *)
(***************************************************************************)
EXTENDS Integers, Sequences, FiniteSets, TLC

(***************************************************************************)
(* Bounds of the model.                                                    *)
(***************************************************************************)
\* width, in bits, of the model's stand-in for u_int64_t
WordBits == 20
\* number of ticks of the sampling loop that are followed
MaxTicks == 2
\* number of activity scenarios (what the ports do in each interval)
NumScenarios == 3
\* number of msr_t objects in the ownership model
NumObjects == 3
\* number of open(2) calls followed in the ownership model
MaxOpens == 4

Word == 2 ^ WordBits

(***************************************************************************)
(* Bit helpers: the C expressions (x >> k) & mask on non-negative values.  *)
(***************************************************************************)
Shr(x, k) == x \div (2 ^ k)
Bits(x, lo, width) == Shr(x, lo) % (2 ^ width)
\* unsigned subtraction of two u_int64_t values
USub(a, b) == (a - b + Word) % Word
Bit(b) == IF b THEN 1 ELSE 0

(***************************************************************************)
(* Static tables, lines 31-62.  C arrays are indexed from 0; the           *)
(* sequences below from 1, so element k of the array is seq[k + 1].        *)
(***************************************************************************)
UOPS_DISPATCHED_PORT ==
    << [event |-> 161, umask |-> 1],      \* 0xa1, 0x01
       [event |-> 161, umask |-> 2],      \* 0xa1, 0x02
       [event |-> 161, umask |-> 12],     \* 0xa1, 0x0c
       [event |-> 161, umask |-> 48],     \* 0xa1, 0x30
       [event |-> 161, umask |-> 64],     \* 0xa1, 0x40
       [event |-> 161, umask |-> 128] >>  \* 0xa1, 0x80

\* length_of(UOPS_DISPATCHED_PORT)
NumPorts == Len(UOPS_DISPATCHED_PORT)

\* 0xc1 .. 0xc8
IA32_PMC == << 193, 194, 195, 196, 197, 198, 199, 200 >>
\* 0x186 .. 0x18d
IA32_PERFEVTSEL == << 390, 391, 392, 393, 394, 395, 396, 397 >>

(***************************************************************************)
(* pmc_config_t, lines 64-78: a packed bit-field struct, reinterpreted as  *)
(* one u_int64_t at line 324.  GCC on x86 allocates bit-fields from the    *)
(* least significant bit, in declaration order.                            *)
(***************************************************************************)
pmc_config_zero ==
    [ event_select |-> 0, unit_mask |-> 0, user_mode |-> FALSE,
      operating_system_mode |-> FALSE, edge_detect |-> FALSE,
      pin_control |-> FALSE, interrupt_enable |-> FALSE,
      any_thread |-> FALSE, enable_counters |-> FALSE,
      invert_counter_mask |-> FALSE, counter_mask |-> 0 ]

pmc_config_bits(conf) ==
      (conf.event_select % 256)
    + (conf.unit_mask % 256)            * (2 ^ 8)
    + Bit(conf.user_mode)               * (2 ^ 16)
    + Bit(conf.operating_system_mode)   * (2 ^ 17)
    + Bit(conf.edge_detect)             * (2 ^ 18)
    + Bit(conf.pin_control)             * (2 ^ 19)
    + Bit(conf.interrupt_enable)        * (2 ^ 20)
    + Bit(conf.any_thread)              * (2 ^ 21)
    + Bit(conf.enable_counters)         * (2 ^ 22)
    + Bit(conf.invert_counter_mask)     * (2 ^ 23)
    + (conf.counter_mask % 256)         * (2 ^ 24)

\* the value main() builds for event i at lines 313-321
PortConfig(i) ==
    [ pmc_config_zero EXCEPT
        !.unit_mask = UOPS_DISPATCHED_PORT[i + 1].umask,
        !.event_select = UOPS_DISPATCHED_PORT[i + 1].event,
        !.user_mode = TRUE,
        !.operating_system_mode = TRUE,
        !.any_thread = TRUE,
        !.enable_counters = TRUE ]

(***************************************************************************)
(* pmcinfo(), cpu_family(), cpu_model(): decoding of CPUID.0AH:EAX and     *)
(* CPUID.01H:EAX.                                                          *)
(***************************************************************************)
pmcinfo(rax) ==
    [ version_id         |-> Bits(rax, 0, 8),
      num_pmc_per_thread |-> Bits(rax, 8, 8),
      pmc_bitwidth       |-> Bits(rax, 16, 8) ]

cpu_family(rax) ==
    LET family_id == Bits(rax, 8, 4)
        extended_family_id == Bits(rax, 20, 8)
    IN  IF family_id # 15 THEN family_id ELSE extended_family_id + family_id

cpu_model(rax) ==
    LET family_id == Bits(rax, 8, 4)
        model_id == Bits(rax, 4, 4)
        extended_model_id == Bits(rax, 16, 4)
    IN  IF family_id = 6 \/ family_id = 15
        THEN extended_model_id * 16 + model_id
        ELSE model_id

\* the gate of line 291, negated: the program goes on
SupportedLax(info, family, model) ==
    info.version_id >= 3 /\ family = 6
Supported(info, family, model) ==
    ~ (info.version_id < 3 \/ family # 6 \/ model # 42)

(***************************************************************************)
(* The machines the program is run on.                                     *)
(***************************************************************************)
\* CPUID.01H:EAX
\*   0x000206A7  family 6, model 42 (the supported part)
\*   0x000306A9  family 6, model 58
\*   0x00000F41  family 15, extended family 0
\*   0x00100F42  family 15 + extended family 1 = 16
\*   0x0002052A  family 5: the extended model field is ignored
CpuidLeaf1 == { 132775, 198313, 3905, 1052482, 132394 }

\* CPUID.0AH:EAX, counter width field 16 (standing for 48, see Widths)
\*   0x07100403  version 3, 4 counters per thread
\*   0x07100803  version 3, 8 counters per thread
\*   0x07100003  version 3, no general-purpose counter
\*   0x07100402  version 2, 4 counters per thread
CpuidLeafA == { 118490115, 118491139, 118489091, 118490114 }

Cpu(id, physical_id, core_id, tsc) ==
    [ id |-> id, physical_id |-> physical_id, core_id |-> core_id,
      constant_tsc |-> tsc ]

\* /proc/cpuinfo as cpuinfo() returns it, reduced to the fields main() reads
\* (id, core_id, flags) and the package id that tells physical cores apart.
Topologies ==
    { << Cpu(0, 0, 0, TRUE) >>,
      << Cpu(0, 0, 0, TRUE), Cpu(1, 0, 0, TRUE) >>,
      << Cpu(0, 0, 0, TRUE), Cpu(1, 0, 1, TRUE) >>,
      << Cpu(0, 0, 0, TRUE), Cpu(1, 0, 1, TRUE),
         Cpu(2, 0, 0, TRUE), Cpu(3, 0, 1, TRUE) >>,
      << Cpu(0, 0, 0, TRUE), Cpu(1, 0, 2, TRUE) >>,
      << Cpu(0, 0, 0, TRUE), Cpu(1, 1, 0, TRUE) >>,
      << Cpu(0, 0, 0, FALSE), Cpu(1, 0, 0, FALSE) >>,
      << Cpu(0, 0, 0, TRUE), Cpu(1, 0, 0, FALSE) >> }

CpuIds(cs) == { cs[k].id : k \in 1..Len(cs) }

\* which /dev/cpu/N/msr can be opened: all, all but the last, none
Openable(cs) ==
    { CpuIds(cs), CpuIds(cs) \ { cs[Len(cs)].id }, {} }


(***************************************************************************)
(* What the hardware does.  Port p of the physical core of `cpu` dispatches*)
(* PortEvents(s, k, cpu, p) micro-op cycles during interval k (the time    *)
(* between the (k-1)-th and the k-th reading of the counters) and the time *)
(* stamp counter reads Tsc(s, k) at the start of tick k (k = 0: the        *)
(* baseline of line 341).  Scenario 1 is the reference scenario: 10,000    *)
(* events per 1,000,000 cycles.  The later scenarios differ per port and   *)
(* core, let the counters pass 2^pmc_bitwidth and the TSC pass 2^WordBits. *)
(***************************************************************************)
PortEvents(s, k, cpu, p) ==
    IF s = 1 THEN 10000
    ELSE 13000 * s + 1000 * p + 100 * cpu.core_id + 10 * cpu.physical_id + k

Tsc(s, k) ==
    IF s = 1 THEN k * 1000000
    ELSE (300000 * s + k * (400000 + 100000 * s)) % Word

\* IA32_PERFEVTSELx as the hardware reads it: counting enabled, event, umask
EvtselEnabled(v) == Bits(v, 22, 1) = 1
EvtselEvent(v) == Bits(v, 0, 8)
EvtselUmask(v) == Bits(v, 8, 8)

\* the ports an event-select value selects (indices into the port table)
SelectedPorts(v) ==
    { p \in 0..(NumPorts - 1) :
        /\ EvtselEnabled(v)
        /\ UOPS_DISPATCHED_PORT[p + 1].event = EvtselEvent(v)
        /\ UOPS_DISPATCHED_PORT[p + 1].umask = EvtselUmask(v) }

\* hundredths of a percent printed by "%6.2f%%" for delta / (double) hz * 100,
\* rounded to the nearest hundredth; -1 stands for inf/nan (hz = 0)
Percent(delta, hz) ==
    IF hz = 0 THEN -1
    ELSE LET whole == (delta * 100) \div hz
             rest == (delta * 100) % hz
             hund == (rest * 100) \div hz
             rest2 == (rest * 100) % hz
         IN  whole * 100 + hund + (IF 2 * rest2 >= hz THEN 1 ELSE 0)

(***************************************************************************)
(* State.                                                                  *)
(***************************************************************************)
VARIABLES
    cpuid1,      \* CPUID.01H:EAX of the machine
    cpuidA,      \* CPUID.0AH:EAX of the machine
    proc,        \* the processor table /proc/cpuinfo yields
    devs,        \* ids of the processors whose /dev/cpu/N/msr can be opened
    scenario,    \* what the ports do
    msr,         \* the registers: <<cpu id, address>> -> value
    fdtable,     \* the process's open descriptors: fd -> cpu id
    pc,          \* position of main()
    info,        \* pmc_info_t info
    cpus,        \* std::vector<cpu_t> cpus
    num_cores,   \* const int num_cores
    core_msrs,   \* std::vector<std::vector<msr_t>> core_msrs
    next_cpu,    \* position of the loop of line 304 (0-based)
    core_id,     \* loop variable core_id
    i,           \* loop variable i
    values,      \* std::vector<std::vector<u_int64_t>> values
    tsc0,        \* u_int64_t tsc0
    hz,          \* u_int64_t hz of the current tick
    ticks,       \* number of ticks started
    trace        \* what the program did: opens, register accesses, output

progvars == << pc, info, cpus, num_cores, core_msrs, next_cpu, core_id, i,
               values, tsc0, hz, ticks >>
machine == << cpuid1, cpuidA, proc, devs, scenario >>
mainvars == << machine, msr, fdtable, progvars, trace >>

Regs == { IA32_PMC[k] : k \in 1..Len(IA32_PMC) }
           \cup { IA32_PERFEVTSEL[k] : k \in 1..Len(IA32_PERFEVTSEL) }
IsCounter(reg) == \E k \in 1..Len(IA32_PMC) : IA32_PMC[k] = reg

\* power-on register contents: event selects clear, counters hold leftovers
PowerOn(cs) ==
    [ key \in CpuIds(cs) \X Regs |-> IF IsCounter(key[2]) THEN 777 ELSE 0 ]

MainInit ==
    /\ cpuid1 \in CpuidLeaf1
    /\ cpuidA \in CpuidLeafA
    /\ proc \in Topologies
    /\ devs \in Openable(proc)
    /\ scenario \in 1..NumScenarios
    /\ msr = PowerOn(proc)
    /\ fdtable = << >>
    /\ pc = "start"
    /\ info = pmcinfo(0)
    /\ cpus = << >>
    /\ num_cores = 0
    /\ core_msrs = << >>
    /\ next_cpu = 0
    /\ core_id = 0
    /\ i = 0
    /\ values = << >>
    /\ tsc0 = 0
    /\ hz = 0
    /\ ticks = 0
    /\ trace = << >>

(***************************************************************************)
(* msr_t, lines 80-119.                                                    *)
(***************************************************************************)
\* open(2) returns the lowest descriptor not in use; 0, 1 and 2 are taken
LowestFree(used) ==
    CHOOSE n \in 3..(3 + Cardinality(used)) :
        n \notin used /\ \A m \in 3..(n - 1) : m \in used

\* msr_t(const std::string &path): fd = open(path, O_RDWR), unchecked
msr_ctor(fd) == [ fd |-> fd ]

\* pwrite/pread on the device: 8 bytes, a short count, or -1; on a
\* descriptor that is not open always -1 (EBADF)
Transfers(fd) == IF fd \in DOMAIN fdtable THEN { 8, 4, -1 } ELSE { -1 }

\* wrmsr(): `if (pwrite(fd, &val, 8, reg) != 8) throw`
wrmsr_throws_lax(n) == n < 0
wrmsr_throws(n) == n # 8
\* rdmsr(): `if (pread(fd, &val, 8, reg) != 8) throw`
rdmsr_throws(n) == n # 8

Device(fd) == IF fd \in DOMAIN fdtable THEN fdtable[fd] ELSE -1
CpuOf(id) == CHOOSE c \in { proc[k] : k \in 1..Len(proc) } : c.id = id


VARIABLES
    objs,        \* object -> [alive, fd]; the fd of a dead object is junk
    osfds,       \* descriptors the process has open
    opens,       \* successful open(2) calls so far
    closes,      \* close(2) calls that closed a descriptor
    ebadf        \* close(2) calls on a descriptor that was not open

ownvars == << objs, osfds, opens, closes, ebadf >>
vars == << mainvars, ownvars >>

(***************************************************************************)
(* main(), lines 278-367.                                                  *)
(***************************************************************************)
\* lines 281-294: probe, print, gate; exit(EXIT_FAILURE) on an unsupported CPU
Probe ==
    /\ pc = "start"
    /\ info' = pmcinfo(cpuidA)
    /\ pc' = IF Supported(pmcinfo(cpuidA), cpu_family(cpuid1), cpu_model(cpuid1))
             THEN "cpuinfo" ELSE "exit_failure"
    /\ UNCHANGED << ownvars, machine, msr, fdtable, cpus, num_cores, core_msrs,
                    next_cpu, core_id, i, values, tsc0, hz, ticks, trace >>

\* std::accumulate(..., 0, max(a, b.core_id)) + 1, line 302
MaxCoreId(cs) ==
    LET ids == { cs[k].core_id : k \in 1..Len(cs) } \cup { 0 }
    IN  CHOOSE m \in ids : \A n \in ids : n <= m

\* lines 296-303: read the table, test the flag of cpus[0], size core_msrs
ReadCpuinfo ==
    /\ pc = "cpuinfo"
    /\ cpus' = proc
    /\ IF proc[1].constant_tsc
       THEN /\ pc' = "open"
            /\ num_cores' = MaxCoreId(proc) + 1
            /\ core_msrs' = [ c \in 1..(MaxCoreId(proc) + 1) |-> << >> ]
       ELSE /\ pc' = "exit_failure"
            /\ UNCHANGED << num_cores, core_msrs >>
    /\ UNCHANGED << ownvars, machine, msr, fdtable, info, next_cpu, core_id, i,
                    values, tsc0, hz, ticks, trace >>

\* lines 304-305, one iteration: core_msrs[cpu.core_id].emplace_back(open_msr())
OpenMsr ==
    /\ pc = "open"
    /\ next_cpu < Len(cpus)
    /\ LET cpu == cpus[next_cpu + 1]
           fd == IF cpu.id \in devs THEN LowestFree(DOMAIN fdtable) ELSE -1
       IN  /\ fdtable' = IF fd >= 0 THEN fdtable @@ (fd :> cpu.id) ELSE fdtable
           /\ core_msrs' = [ core_msrs EXCEPT
                               ![cpu.core_id + 1] = Append(@, msr_ctor(fd)) ]
           /\ trace' = Append(trace, [ op |-> "open", cpu |-> cpu.id, fd |-> fd ])
    /\ next_cpu' = next_cpu + 1
    /\ UNCHANGED << ownvars, machine, msr, pc, info, cpus, num_cores, core_id, i,
                    values, tsc0, hz, ticks >>

\* line 304, loop exit; line 308, loop entry
OpenDone ==
    /\ pc = "open"
    /\ next_cpu = Len(cpus)
    /\ pc' = "configure"
    /\ core_id' = 0
    /\ i' = 0
    /\ UNCHANGED << ownvars, machine, msr, fdtable, info, cpus, num_cores, core_msrs,
                    next_cpu, values, tsc0, hz, ticks, trace >>

\* the planner: lines 310-311, 332-333, 352-353
cpu_idx_of(k, n) == k \div n
pmc_idx_wrapped(k, n) == k % (n - 1)
pmc_idx_of(k, n) == k % n

\* `i / info.num_pmc_per_thread` divides and core_msrs[core_id][cpu_idx]
\* indexes without a check: both are defined only if this holds
Addressable(c, k) ==
    /\ info.num_pmc_per_thread # 0
    /\ cpu_idx_of(k, info.num_pmc_per_thread) < Len(core_msrs[c + 1])

\* auto &msr = core_msrs[core_id][cpu_idx]
Channel(c, k) == core_msrs[c + 1][cpu_idx_of(k, info.num_pmc_per_thread) + 1]

\* the registers the three loops address for event k
ConfigReg(k) == IA32_PERFEVTSEL[pmc_idx_of(k, info.num_pmc_per_thread) + 1]
ResetRegWrong(k) == IA32_PERFEVTSEL[pmc_idx_of(k, info.num_pmc_per_thread) + 1]
ResetReg(k) == IA32_PMC[pmc_idx_of(k, info.num_pmc_per_thread) + 1]
SampleReg(k) == IA32_PMC[pmc_idx_of(k, info.num_pmc_per_thread) + 1]

\* the for-loops over (core_id, i): the position after one iteration
LastOfCore == i = NumPorts - 1
LastOfAll == LastOfCore /\ core_id = num_cores - 1
Advance ==
    /\ i' = IF LastOfCore THEN 0 ELSE i + 1
    /\ core_id' = IF LastOfAll THEN 0 ELSE IF LastOfCore THEN core_id + 1 ELSE core_id

\* a register write through channel m as the hardware and the log see it
WriteEntry(m, reg, val, n) ==
    [ op |-> "wrmsr", core |-> core_id, i |-> i, fd |-> m.fd,
      cpu |-> Device(m.fd), reg |-> reg, val |-> val, n |-> n ]
Written(m, reg, val, n) ==
    IF n = 8
    THEN [ msr EXCEPT ![<< Device(m.fd), reg >>] =
             IF IsCounter(reg) THEN val % (2 ^ info.pmc_bitwidth) ELSE val ]
    ELSE msr

\* lines 308-326, one iteration of the inner loop
Configure ==
    /\ pc = "configure"
    /\ Addressable(core_id, i)
    /\ LET m == Channel(core_id, i)
           val == pmc_config_bits(PortConfig(i))
       IN  \E n \in Transfers(m.fd) :
             /\ trace' = Append(trace, WriteEntry(m, ConfigReg(i), val, n))
             /\ msr' = Written(m, ConfigReg(i), val, n)
             /\ IF wrmsr_throws(n)
                THEN pc' = "terminated" /\ UNCHANGED << core_id, i, values >>
                ELSE /\ Advance
                     /\ pc' = IF LastOfAll THEN "reset" ELSE "configure"
                     \* line 329: values(num_cores), each vector empty
                     /\ values' = IF LastOfAll
                                  THEN [ c \in 1..num_cores |-> << >> ]
                                  ELSE values
    /\ UNCHANGED << ownvars, machine, fdtable, info, cpus, num_cores, core_msrs,
                    next_cpu, tsc0, hz, ticks >>

\* lines 330-339, one iteration of the inner loop; after the last event of a
\* core, values[core_id].resize(6) value-initialises its six elements
Reset ==
    /\ pc = "reset"
    /\ Addressable(core_id, i)
    /\ LET m == Channel(core_id, i)
       IN  \E n \in Transfers(m.fd) :
             /\ trace' = Append(trace, WriteEntry(m, ResetReg(i), 0, n))
             /\ msr' = Written(m, ResetReg(i), 0, n)
             /\ IF wrmsr_throws(n)
                THEN pc' = "terminated" /\ UNCHANGED << core_id, i, values >>
                ELSE /\ Advance
                     /\ pc' = IF LastOfAll THEN "baseline" ELSE "reset"
                     /\ values' = IF LastOfCore
                                  THEN [ values EXCEPT ![core_id + 1] =
                                           [ k \in 1..NumPorts |-> 0 ] ]
                                  ELSE values
    /\ UNCHANGED << ownvars, machine, fdtable, info, cpus, num_cores, core_msrs,
                    next_cpu, tsc0, hz, ticks >>

\* line 341: u_int64_t tsc0 = rdtsc()
Baseline ==
    /\ pc = "baseline"
    /\ tsc0' = Tsc(scenario, 0)
    /\ trace' = Append(trace, [ op |-> "rdtsc", val |-> Tsc(scenario, 0) ])
    /\ pc' = "sleep"
    /\ UNCHANGED << ownvars, machine, msr, fdtable, info, cpus, num_cores, core_msrs,
                    next_cpu, core_id, i, values, hz, ticks >>

\* lines 343-347: usleep; tsc = rdtsc(); hz = tsc - tsc0; tsc0 = tsc
elapsed(tsc, old) == USub(tsc, old)
TickStart ==
    /\ pc = "sleep"
    /\ ticks < MaxTicks
    /\ LET tsc == Tsc(scenario, ticks + 1)
       IN  /\ hz' = elapsed(tsc, tsc0)
           /\ tsc0' = tsc
           /\ trace' = Append(trace, [ op |-> "rdtsc", val |-> tsc ])
    /\ ticks' = ticks + 1
    /\ pc' = "sample"
    /\ core_id' = 0
    /\ i' = 0
    /\ UNCHANGED << ownvars, machine, msr, fdtable, info, cpus, num_cores, core_msrs,
                    next_cpu, values >>

\* what the counter at (cpu, reg) counted since it was last read or written
Counted(id, reg) ==
    LET slot == CHOOSE k \in 1..Len(IA32_PMC) : IA32_PMC[k] = reg
        sel == SelectedPorts(msr[<< id, IA32_PERFEVTSEL[slot] >>])
    IN  IF sel = {} THEN 0
        ELSE PortEvents(scenario, ticks, CpuOf(id), CHOOSE p \in sel : TRUE)

\* lines 356-359: the delta that is printed and the value that is kept
delta_of(value, value0) == USub(value, value0)
kept_stale(value, value0) == value0
kept(value, value0) == value

\* lines 349-362, one iteration of the inner loop
Sample ==
    /\ pc = "sample"
    /\ Addressable(core_id, i)
    /\ LET m == Channel(core_id, i)
           reg == SampleReg(i)
       IN  \E n \in Transfers(m.fd) :
             IF rdmsr_throws(n)
             THEN /\ trace' = Append(trace,
                      [ op |-> "rdmsr", core |-> core_id, i |-> i, fd |-> m.fd,
                        cpu |-> Device(m.fd), reg |-> reg, val |-> 0, n |-> n,
                        events |-> 0 ])
                  /\ pc' = "terminated"
                  /\ UNCHANGED << msr, core_id, i, values >>
             ELSE LET events == Counted(Device(m.fd), reg)
                      value == (msr[<< Device(m.fd), reg >>] + events)
                                 % (2 ^ info.pmc_bitwidth)
                      value0 == values[core_id + 1][i + 1]
                      delta == delta_of(value, value0)
                  IN  /\ msr' = [ msr EXCEPT ![<< Device(m.fd), reg >>] = value ]
                      /\ trace' = trace \o
                           << [ op |-> "rdmsr", core |-> core_id, i |-> i,
                                fd |-> m.fd, cpu |-> Device(m.fd), reg |-> reg,
                                val |-> value, n |-> n, events |-> events ],
                              [ op |-> "print", core |-> core_id, i |-> i,
                                delta |-> delta, hz |-> hz,
                                pct |-> Percent(delta, hz) ] >>
                      /\ values' = [ values EXCEPT ![core_id + 1][i + 1] =
                                       kept(value, value0) ]
                      /\ Advance
                      /\ pc' = IF LastOfAll THEN "sleep" ELSE "sample"
    /\ UNCHANGED << ownvars, machine, fdtable, info, cpus, num_cores, core_msrs,
                    next_cpu, tsc0, hz, ticks >>

(***************************************************************************)
(* Undefined behaviour.  With num_pmc_per_thread = 0 line 310 divides by   *)
(* zero; with fewer channels in core_msrs[core_id] than the plan needs     *)
(* line 323 indexes the vector out of range.  The build may trap (SIGFPE,  *)
(* SIGSEGV), or read a stray descriptor: one that is not open, so that     *)
(* pwrite fails and wrmsr throws, or one that is, so that the register of  *)
(* some other logical processor is written.  What follows such a write is  *)
(* not followed.                                                           *)
(***************************************************************************)
UndefinedAccess ==
    /\ pc \in { "configure", "reset", "sample" }
    /\ ~ Addressable(core_id, i)
    /\ \/ /\ pc' = "signal"
          /\ UNCHANGED << msr, trace >>
       \/ /\ info.num_pmc_per_thread # 0
          /\ pc' = "terminated"
          /\ trace' = Append(trace, WriteEntry(msr_ctor(-1), ConfigReg(i),
                                pmc_config_bits(PortConfig(i)), -1))
          /\ UNCHANGED msr
       \/ /\ info.num_pmc_per_thread # 0
          /\ \E fd \in DOMAIN fdtable :
               /\ trace' = Append(trace,
                     [ WriteEntry(msr_ctor(fd), ConfigReg(i),
                                  pmc_config_bits(PortConfig(i)), 8)
                         EXCEPT !.op = "stray wrmsr" ])
               /\ msr' = Written(msr_ctor(fd), ConfigReg(i),
                                 pmc_config_bits(PortConfig(i)), 8)
          /\ pc' = "undefined"
    /\ UNCHANGED << ownvars, machine, fdtable, info, cpus, num_cores, core_msrs,
                    next_cpu, core_id, i, values, tsc0, hz, ticks >>

Next ==
    \/ Probe
    \/ ReadCpuinfo
    \/ OpenMsr
    \/ OpenDone
    \/ Configure
    \/ Reset
    \/ Baseline
    \/ TickStart
    \/ Sample
    \/ UndefinedAccess


(***************************************************************************)
(* Ownership of the descriptor by msr_t objects, lines 80-104, under any   *)
(* sequence of constructions, moves and destructions (what std::vector and *)
(* return-by-value do with the objects in main()).                         *)
(***************************************************************************)
Objects == 1..NumObjects
Dead == [ alive |-> FALSE, fd |-> -1 ]

OwnInit ==
    /\ objs = [ o \in Objects |-> Dead ]
    /\ osfds = {}
    /\ opens = 0
    /\ closes = 0
    /\ ebadf = 0

\* msr_t(msr_t &&rhs) and operator=(msr_t &&rhs): what is left in rhs
moved_from_copy(rhs) == rhs
moved_from(rhs) == [ rhs EXCEPT !.fd = -1 ]

\* `if (fd >= 0) close(fd)` of the destructor and of move assignment
ClosesFd(m) == m.fd >= 0
CloseOf(m) ==
    /\ osfds' = IF ClosesFd(m) THEN osfds \ { m.fd } ELSE osfds
    /\ closes' = IF ClosesFd(m) /\ m.fd \in osfds THEN closes + 1 ELSE closes
    /\ ebadf' = IF ClosesFd(m) /\ m.fd \notin osfds THEN ebadf + 1 ELSE ebadf

\* msr_t(const std::string &path), lines 98-100
Construct(o) ==
    /\ ~ objs[o].alive
    /\ opens < MaxOpens
    /\ \E ok \in BOOLEAN :
         LET fd == IF ok THEN LowestFree(osfds) ELSE -1
         IN  /\ objs' = [ objs EXCEPT ![o] = [ alive |-> TRUE, fd |-> fd ] ]
             /\ osfds' = IF ok THEN osfds \cup { fd } ELSE osfds
             /\ opens' = IF ok THEN opens + 1 ELSE opens
    /\ UNCHANGED << closes, ebadf, mainvars >>

\* msr_t(msr_t &&rhs), lines 86-89
MoveConstruct(o, r) ==
    /\ o # r
    /\ ~ objs[o].alive
    /\ objs[r].alive
    /\ objs' = [ objs EXCEPT ![o] = [ alive |-> TRUE, fd |-> objs[r].fd ],
                             ![r] = moved_from(objs[r]) ]
    /\ UNCHANGED << osfds, opens, closes, ebadf, mainvars >>

\* operator=(msr_t &&rhs), lines 91-97; rhs may be *this
MoveAssign(o, r) ==
    /\ objs[o].alive
    /\ objs[r].alive
    /\ CloseOf(objs[o])
    /\ objs' = IF o = r
               THEN [ objs EXCEPT ![o] = moved_from(objs[o]) ]
               ELSE [ objs EXCEPT ![o] = [ alive |-> TRUE, fd |-> objs[r].fd ],
                                  ![r] = moved_from(objs[r]) ]
    /\ UNCHANGED << opens, mainvars >>

\* ~msr_t(), lines 101-104
Destroy(o) ==
    /\ objs[o].alive
    /\ CloseOf(objs[o])
    /\ objs' = [ objs EXCEPT ![o] = Dead ]
    /\ UNCHANGED << opens, mainvars >>

NextMsr ==
    \/ \E o \in Objects : Construct(o)
    \/ \E o, r \in Objects : MoveConstruct(o, r)
    \/ \E o, r \in Objects : MoveAssign(o, r)
    \/ \E o \in Objects : Destroy(o)

(***************************************************************************)
(* Specifications: the run of main(), and the msr_t objects on their own.  *)
(***************************************************************************)
Init == MainInit /\ OwnInit
Spec == Init /\ [][Next]_vars

\* the sampler untouched, on one machine
Idle ==
    /\ cpuid1 = 132775
    /\ cpuidA = 118490115
    /\ proc = << Cpu(0, 0, 0, TRUE) >>
    /\ devs = { 0 }
    /\ scenario = 1
    /\ msr = PowerOn(proc)
    /\ fdtable = << >>
    /\ pc = "start"
    /\ info = pmcinfo(0)
    /\ cpus = << >>
    /\ num_cores = 0
    /\ core_msrs = << >>
    /\ next_cpu = 0
    /\ core_id = 0
    /\ i = 0
    /\ values = << >>
    /\ tsc0 = 0
    /\ hz = 0
    /\ ticks = 0
    /\ trace = << >>

InitMsr == Idle /\ OwnInit
SpecMsr == InitMsr /\ [][NextMsr]_vars


(***************************************************************************)
(* Vocabulary of the properties, over the log of what the program did.     *)
(***************************************************************************)
Idx == 1..Len(trace)
IsOpen(n) == trace[n].op = "open"
IsWrite(n) == trace[n].op = "wrmsr"
IsRead(n) == trace[n].op = "rdmsr"
IsStray(n) == trace[n].op = "stray wrmsr"
IsAccess(n) == IsWrite(n) \/ IsRead(n) \/ IsStray(n)
IsTsc(n) == trace[n].op = "rdtsc"
IsPrint(n) == trace[n].op = "print"
FailedOpen(n) == IsOpen(n) /\ trace[n].fd < 0
GoodOpen(n) == IsOpen(n) /\ trace[n].fd >= 0
\* a register access that transferred fewer than 8 bytes
ShortAccess(n) == (IsWrite(n) \/ IsRead(n)) /\ trace[n].n # 8
IsEvtsel(reg) == \E k \in 1..Len(IA32_PERFEVTSEL) : IA32_PERFEVTSEL[k] = reg
ConfigWrite(n) == IsWrite(n) /\ IsEvtsel(trace[n].reg)
CounterWrite(n) == IsWrite(n) /\ IsCounter(trace[n].reg)

\* the machine as the probes decode it
Version == pmcinfo(cpuidA).version_id
CountersPerThread == pmcinfo(cpuidA).num_pmc_per_thread
Family == cpu_family(cpuid1)
Model == cpu_model(cpuid1)

\* the logical processors of the machine, and its physical cores
Lps == { proc[k] : k \in 1..Len(proc) }
SameCore(a, b) == a.physical_id = b.physical_id /\ a.core_id = b.core_id
ThreadsOf(a) == Cardinality({ b \in Lps : SameCore(a, b) })

\* the event list does not fit: no counter, or an event whose offset
\* i / counters_per_thread is no thread of some core
Infeasible ==
    \/ CountersPerThread < 1
    \/ \E a \in Lps : \E k \in 0..(NumPorts - 1) :
         k \div CountersPerThread >= ThreadsOf(a)

\* C1: when the event list does not fit the hardware, no MSR handle is ever
\* opened and no register is ever accessed (the run ends in a planning
\* failure before any of that).
C1_NoHandleWhenInfeasible ==
    Infeasible => \A n \in Idx : ~ GoodOpen(n) /\ ~ IsAccess(n)

\* C2: a handle is opened or a register accessed only if the PMC version is
\* at least 3, the family is 6, the model is 42 and constant_tsc is among
\* the flags of the first processor; when the CPU is unsupported or the flag
\* is missing, the program is at exit(EXIT_FAILURE) as soon as it has
\* passed the respective test, and configure, reset and tick are never
\* reached.
C2_GateBeforeAnyHandle ==
    LET hw == Version >= 3 /\ Family = 6 /\ Model = 42
        flag == proc[1].constant_tsc
    IN  /\ (trace # << >> \/ fdtable # << >>) => (hw /\ flag)
        /\ (~ hw /\ pc # "start") => pc = "exit_failure"
        /\ (~ flag /\ pc \notin { "start", "cpuinfo" }) => pc = "exit_failure"
        /\ pc = "exit_failure" => ~ (hw /\ flag)

\* C2 witness: on a supported machine a handle is open and a counter was read
C2_Witness ==
    /\ Version >= 3 /\ Family = 6 /\ Model = 42 /\ proc[1].constant_tsc
    /\ \E n \in Idx : IsRead(n) /\ trace[n].n = 8

\* C3: once the handle of a logical processor could not be opened, no
\* register of any logical processor is written (the failure surfaces at
\* the open, not as a failed register write).
C3_NoWriteAfterFailedOpen ==
    \A m, n \in Idx : (FailedOpen(m) /\ m < n) => ~ (IsWrite(n) \/ IsStray(n))

\* C4: the delta printed for an event equals the number of events its
\* counter counted in the interval, also when the counter passed
\* 2^pmc_bitwidth within it.
C4_DeltaIsTrueCount ==
    \A n \in Idx : IsPrint(n) => trace[n].delta = trace[n - 1].events

\* C5: a register access that transfers fewer than 8 bytes is the last thing
\* the program does: the run is terminated, and no access, retry or tick
\* follows it.
C5_ShortAccessIsFatal ==
    \A n \in Idx : ShortAccess(n) => (n = Len(trace) /\ pc = "terminated")

\* C5 witness: a counter read fails in the second tick
C5_Witness ==
    /\ pc = "terminated"
    /\ ticks = 2
    /\ trace # << >>
    /\ IsRead(Len(trace)) /\ trace[Len(trace)].n # 8


\* the logical processors the program groups under core index c, in table
\* order, and their number of distinct core ids
Members(c) == SelectSeq(proc, LAMBDA x : x.core_id = c)
CoreIds == { proc[k].core_id : k \in 1..Len(proc) }
\* accesses that transferred all 8 bytes
Done(n) == (IsWrite(n) \/ IsRead(n)) /\ trace[n].n = 8

\* C6: event i of core c is accessed through the logical processor at offset
\* i div counters_per_thread of the core, in slot i mod counters_per_thread,
\* by configure, reset and tick alike; two events never share a register;
\* and the counter read for event i is the one whose event-select register
\* selects port i.
C6_PlanIsSharedAndInjective ==
    /\ \A n \in Idx : Done(n) =>
         LET e == trace[n]
             off == e.i \div CountersPerThread
             slot == e.i % CountersPerThread
         IN  /\ off < Len(Members(e.core))
             /\ e.cpu = Members(e.core)[off + 1].id
             /\ e.reg = IF ConfigWrite(n) THEN IA32_PERFEVTSEL[slot + 1]
                                          ELSE IA32_PMC[slot + 1]
             /\ IsRead(n) =>
                  SelectedPorts(msr[<< e.cpu, IA32_PERFEVTSEL[slot + 1] >>])
                    = { e.i }
    /\ \A m, n \in Idx :
         ( /\ Done(m) /\ Done(n)
           /\ trace[m].op = trace[n].op
           /\ trace[m].cpu = trace[n].cpu
           /\ trace[m].reg = trace[n].reg )
         => (trace[m].core = trace[n].core /\ trace[m].i = trace[n].i)

\* C6 witness: 4 counters per thread, one core of two threads: the counter of
\* event 4 is read in slot 0 (0xc1) of the second thread
C6_Witness ==
    /\ CountersPerThread = 4
    /\ Len(proc) = 2 /\ ThreadsOf(proc[1]) = 2
    /\ \E n \in Idx :
         /\ IsRead(n) /\ trace[n].n = 8
         /\ trace[n].i = 4 /\ trace[n].cpu = proc[2].id /\ trace[n].reg = 193

NumBefore(S, n) == Cardinality({ m \in S : m < n })

\* C7: in a run without I/O failure, exactly num_cores * 6 event-select
\* writes come first, then exactly num_cores * 6 writes of 0 to counter
\* registers, and all of them precede the baseline rdtsc and every counter
\* read.
C7_ConfigureThenResetThenSample ==
    LET total == Cardinality(CoreIds) * NumPorts
        cfg == { n \in Idx : ConfigWrite(n) }
        rst == { n \in Idx : CounterWrite(n) }
        later == { n \in Idx : IsTsc(n) \/ IsRead(n) \/ IsPrint(n) }
    IN  (\A n \in Idx : ~ ShortAccess(n)) =>
          /\ Cardinality(cfg) <= total
          /\ Cardinality(rst) <= total
          /\ \A n \in rst : trace[n].val = 0 /\ NumBefore(cfg, n) = total
          /\ \A n \in later :
               NumBefore(cfg, n) = total /\ NumBefore(rst, n) = total
          /\ \A n \in Idx : IsRead(n) => \E m \in Idx : IsTsc(m) /\ m < n
          /\ pc = "reset" => Cardinality(cfg) = total
          /\ pc \in { "baseline", "sleep", "sample" } =>
               Cardinality(cfg) = total /\ Cardinality(rst) = total

\* C7 witness: one core with two logical processors is being sampled after
\* 6 event-select writes and 6 zeroing writes
C7_Witness ==
    /\ pc = "sample"
    /\ Len(proc) = 2 /\ ThreadsOf(proc[1]) = 2
    /\ Cardinality({ n \in Idx : ConfigWrite(n) }) = 6
    /\ Cardinality({ n \in Idx : CounterWrite(n) }) = 6
    /\ \E n \in Idx : IsRead(n)
    /\ \A n \in Idx : ~ ShortAccess(n)

\* C8: once the handles are opened (all opens succeeding), every core index
\* below num_cores owns one channel for each logical processor of one
\* physical core, and no others; none is left without a channel.
C8_EveryCoreOwnsItsThreads ==
    (pc \in { "configure", "reset", "baseline", "sleep", "sample" }
       /\ devs = CpuIds(proc)) =>
      \A c \in 1..num_cores :
        /\ Len(core_msrs[c]) >= 1
        /\ \A k \in 1..Len(core_msrs[c]) :
             /\ SameCore(CpuOf(Device(core_msrs[c][k].fd)),
                         CpuOf(Device(core_msrs[c][1].fd)))
             /\ Len(core_msrs[c])
                  = ThreadsOf(CpuOf(Device(core_msrs[c][k].fd)))

\* C9: every open descriptor is held by exactly one live msr_t, a live msr_t
\* holds an open descriptor or none, close is never called on a descriptor
\* that is not open, and every descriptor opened is either still held or was
\* closed once.
C9_OneOwnerOneClose ==
    /\ \A fd \in osfds :
         Cardinality({ o \in Objects : objs[o].alive /\ objs[o].fd = fd }) = 1
    /\ \A o \in Objects :
         objs[o].alive => (objs[o].fd = -1 \/ objs[o].fd \in osfds)
    /\ ebadf = 0
    /\ opens = closes + Cardinality(osfds)

\* C9 witness: after moves and closes, a moved-from object is alive beside
\* one that holds a descriptor
C9_Witness ==
    /\ opens = MaxOpens
    /\ closes >= 2
    /\ \E o, r \in Objects :
         /\ objs[o].alive /\ objs[o].fd = -1
         /\ objs[r].alive /\ objs[r].fd \in osfds

Max(S) == CHOOSE m \in S : \A n \in S : n <= m
\* the raw value of the latest read of (core, event) before position n; 0
\* (the reset value) if there is none
PrevValue(n, c, k) ==
    LET before == { m \in Idx : m < n /\ IsRead(m) /\ trace[m].n = 8
                                 /\ trace[m].core = c /\ trace[m].i = k }
    IN  IF before = {} THEN 0 ELSE trace[Max(before)].val
\* the cycles between the two latest rdtsc before position n
Elapsed(n) ==
    LET tscs == { m \in Idx : m < n /\ IsTsc(m) }
        cur == Max(tscs)
        old == Max(tscs \ { cur })
    IN  (trace[cur].val - trace[old].val + Word) % Word

\* C10: every figure printed is (v_k - v_{k-1}) / (tsc_k - tsc_{k-1}) * 100
\* with v_0 = 0 and tsc_0 the baseline, the differences taken as unsigned
\* words; all cores of a tick share the elapsed cycles; the program keeps
\* the latest raw value of every counter and the latest cycle count; 10,000
\* events in 1,000,000 cycles print as 1.00.
C10_PerIntervalUtilisation ==
    /\ \A n \in Idx : IsPrint(n) =>
         LET p == trace[n]
             v == trace[n - 1].val
             d == (v - PrevValue(n - 1, p.core, p.i) + Word) % Word
         IN  /\ IsRead(n - 1) /\ trace[n - 1].core = p.core
                              /\ trace[n - 1].i = p.i
             /\ p.hz = Elapsed(n)
             /\ p.delta = d
             /\ p.pct = Percent(d, Elapsed(n))
             /\ (d = 10000 /\ Elapsed(n) = 1000000) => p.pct = 100
    /\ pc \in { "sleep", "sample" } =>
         /\ tsc0 = trace[Max({ m \in Idx : IsTsc(m) })].val
         /\ \A c \in 0..(num_cores - 1) : \A k \in 0..(NumPorts - 1) :
              values[c + 1][k + 1] = PrevValue(Len(trace) + 1, c, k)

\* C10 witness: two ticks of the reference scenario are printed, every figure
\* 1.00
C10_Witness ==
    /\ pc = "sleep" /\ ticks = 2 /\ scenario = 1
    /\ Cardinality({ n \in Idx : IsPrint(n) }) >= 2 * NumPorts
    /\ \A n \in Idx : IsPrint(n) => trace[n].pct = 100

=============================================================================
